---- MODULE Spec2Model ----
(***************************************************************************)
(* Model of the GP2Y0A41SK0F distance-sensor tooling:                      *)
(*   - SensorDataLogger (data_logger.py): start_logging / _logging_loop /  *)
(*     stop_logging and the live_plot consumer of data_queue;              *)
(*   - GP2Y0A41SK0F calibration state (sensor_distance.py): __init__,      *)
(*     calibrate_point, update_interpolation, save_calibration,            *)
(*     load_calibration, and the calibration wizard / Kalman menu entries  *)
(*     of test_connection.py that mutate it.                               *)
(* Times are in tenths of a second, voltages in hundredths of a volt,      *)
(* distances in centimetres, noise parameters in hundredths.               *)
(***************************************************************************)
EXTENDS Integers, Sequences, FiniteSets, TLC

\* ------------------------------------------------------------------ bounds
MaxAcq == 3            \* sensor acquisitions per behaviour of Spec
MaxStarts == 3         \* start_logging calls per behaviour
MaxThreads == 2        \* producer threads alive at the same time
MaxFaults == 1         \* exceptions raised inside the loop per behaviour
MaxBacklog == 11       \* sensor acquisitions per behaviour of BacklogSpec
MaxCalibrations == 2   \* calibrate_point calls per behaviour of CalSpec
MaxPoints == 5         \* calibration points held at the same time
MaxConfigs == 1        \* Kalman menu entries per behaviour of CalSpec
MaxReads == 2          \* sensor acquisitions per behaviour of MenuSpec
                       \* and of SampleSpec
MaxSessions == 1       \* logging sessions per behaviour of MenuSpec
MaxFiltered == 5       \* sensor acquisitions per behaviour of FilterSpec
MaxSamples == 5        \* raw samples averaged by one read_voltage call

Threads == 1..MaxThreads
None == 0              \* Python None / attribute not set

\* time.sleep(1) in the except branch of _logging_loop, in tenths of a second
RecoveryDelay == 10
\* interval argument of start_logging: the default, 0.1 s
Intervals == {1}

VARIABLES
    \* ---- SensorDataLogger
    running,         \* self.running
    session_start,   \* self.session_start (None until the first start)
    log_thread,      \* self.log_thread (None: attribute not set)
    log_rows,        \* whether self.log_file holds data rows after the header
    data_queue,      \* self.data_queue, a queue.Queue()
    total_readings,  \* self.total_readings
    pc,              \* position of each producer thread in _logging_loop
    interval,        \* the interval argument of each producer thread
    cur,             \* log_data of the iteration in progress, per thread
    sleep_arg,       \* argument of the time.sleep in progress, per thread
    mainpc,          \* main thread: "ready", or "joining" / "joining_again"
                     \* inside stop_logging
    last_deq,        \* last log_data taken by update_plot (NoReading: none)
    acquired,        \* sensor acquisitions so far; also the logical clock
    faults,          \* exceptions raised inside the loop so far
    starts,          \* start_logging calls so far
    stop_seen,       \* per thread: stop_logging cleared the flag during its life
    \* ---- GP2Y0A41SK0F calibration state
    constructed,          \* whether a sensor object exists
    calibration_points,   \* self.calibration_points
    interpolation_func,   \* self.interpolation_func (NoFunc: None)
    kalman_q,             \* self.kalman_q
    kalman_r,             \* self.kalman_r
    cal_file,             \* sensor_calibration.json
    load_result,          \* what load_calibration returned, when it was the
                          \* last operation ("none" otherwise)
    saved,                \* the calibration state at the last save_calibration
    calibrations,         \* calibrate_point calls so far
    configs,              \* Kalman menu entries so far
    fit_result,           \* how a direct update_interpolation call ended,
                          \* when it was the last operation ("none" otherwise)
    \* ---- GP2Y0A41SK0F read path
    kalman_enabled,       \* self.kalman_enabled
    kalman_x,             \* self.kalman_x, in hundredths of a centimetre
    kalman_p,             \* self.kalman_p, in hundredths
    voltage_buffer,       \* self.voltage_buffer, deque(maxlen=buffer_size)
    distance_buffer,      \* self.distance_buffer, deque(maxlen=buffer_size)
    readings_count,       \* self.readings_count
    last_reading_time,    \* self.last_reading_time
    converted,            \* latest direct voltage_to_distance call: its
                          \* argument and what it returned (NoConv: none)
    stats,                \* what the latest get_statistics call returned,
                          \* until the sensor is read again (NoStats then)
    ret,                  \* the latest read_distance call of the main
                          \* thread: the converted distance and the value
                          \* returned, until the sensor is read by someone
                          \* else (NoRet then)
    sampled,              \* the raw samples of the latest direct
                          \* read_voltage call (NoSamples: none)
    \* ---- run_scan and its StepperMotor (test_connection.py)
    scan                  \* position of run_scan, motor.enabled, the loop
                          \* index, len(results) and how the scan ended

loggerVars == <<running, session_start, log_thread, log_rows, data_queue,
                total_readings, pc, interval, cur, sleep_arg, mainpc,
                last_deq, acquired, faults, starts, stop_seen>>

calVars == <<constructed, calibration_points, interpolation_func,
             kalman_q, kalman_r, cal_file, load_result, saved,
             calibrations, configs, fit_result>>

readVars == <<kalman_enabled, kalman_x, kalman_p, voltage_buffer,
              distance_buffer, readings_count, last_reading_time, converted,
              stats, ret, sampled>>

sensorVars == <<calVars, readVars>>

vars == <<loggerVars, sensorVars, scan>>

\* time.time() / datetime.now(): every sensor acquisition takes time, so the
\* number of acquisitions so far is used as the clock (starting at 1)
now == acquired + 1

\* ------------------------------------------ GP2Y0A41SK0F calibration model
\* actual_distance values typed into the wizard, in cm (3 is outside 4-30)
Distances == {3, 15}
\* averaged voltages read_voltage yields in front of a scene at rest
SteadyVoltages == {120}
\* (avg_voltage, std_voltage) pairs the 50 samples of calibrate_point yield
Samples == {[voltage |-> 120, std |-> 0], [voltage |-> 310, std |-> 1]}
\* Q / R values typed into the Kalman menu (0: the entry is left blank)
NoiseInputs == {0, 50}

NoFunc == <<>>
\* self.min_distance = 4.0 and self.max_distance = 30.0, in centimetres
MinDistance == 4
MaxDistance == 30
\* self.buffer_size = 10
BufferSize == 10
\* self.kalman_p = 1.0 (hundredths) and self.kalman_x = 15.0 (hundredths of
\* a centimetre) in __init__
InitialP == 100
InitialX == 1500
NoConv == [voltage |-> 0, distance |-> 0]
NoStats == [kind |-> "unset"]
\* no read_distance call to report
NoRet == [filtered |-> FALSE, raw |-> 0, out |-> 0]
\* no read_voltage call to report
NoSamples == <<>>
\* run_scan has not been called
NoScan == [pc |-> "idle", enabled |-> FALSE, i |-> 0, results |-> 0,
           base |-> 0, outcome |-> "none"]
\* self.kalman_q = 0.01 and self.kalman_r = 0.1 in __init__
DefaultQ == 1
DefaultR == 10
\* "if len(self.calibration_points) >= 3" / "< 3"
MinFitPoints == 3
\* interp1d(kind='cubic') needs order + 1 = 4 entries and raises ValueError
\* for fewer
MinCubicPoints == 4

\* json.dump / json.load of a number: its decimal text
RECURSIVE EncodeNum(_)
EncodeNum(n) ==
    IF n < 10 THEN <<n>> ELSE Append(EncodeNum(n \div 10), n % 10)

RECURSIVE DecodeNum(_)
DecodeNum(ds) ==
    IF ds = <<>> THEN 0
    ELSE 10 * DecodeNum(SubSeq(ds, 1, Len(ds) - 1)) + ds[Len(ds)]

EncodePoint(p) == [distance |-> EncodeNum(p.distance),
                   voltage |-> EncodeNum(p.voltage),
                   std |-> EncodeNum(p.std)]
DecodePoint(e) == [distance |-> DecodeNum(e.distance),
                   voltage |-> DecodeNum(e.voltage),
                   std |-> DecodeNum(e.std)]
EncodePoints(ps) == [i \in 1..Len(ps) |-> EncodePoint(ps[i])]
DecodePoints(es) == [i \in 1..Len(es) |-> DecodePoint(es[i])]

\* the file: absent, not JSON, or a JSON object with some of the keys
NoFile == [kind |-> "missing", keys |-> {}, points |-> <<>>, q |-> <<>>,
           r |-> <<>>]

\* mutant: the two noise parameters written under each other's key
Mut_SaveDoc(points, q, r) ==
    [kind |-> "json",
     keys |-> {"sensor", "timestamp", "calibration_points", "kalman_params",
               "q", "r"},
     points |-> EncodePoints(points),
     q |-> EncodeNum(r),
     r |-> EncodeNum(q)]

\* the document save_calibration writes
SaveDoc(points, q, r) ==
    [kind |-> "json",
     keys |-> {"sensor", "timestamp", "calibration_points", "kalman_params",
               "q", "r"},
     points |-> EncodePoints(points),
     q |-> EncodeNum(q),
     r |-> EncodeNum(r)]

\* mutant: the new point stays where append put it
Mut_InsertByDistance(sq, p) == Append(sq, p)

\* list.sort(key=lambda x: x['distance']): stable, ascending
InsertByDistance(sq, p) ==
    LET k == Cardinality({i \in 1..Len(sq) : sq[i].distance <= p.distance})
    IN SubSeq(sq, 1, k) \o <<p>> \o SubSeq(sq, k + 1, Len(sq))

RECURSIVE SortByDistance(_)
SortByDistance(sq) ==
    IF sq = <<>> THEN <<>>
    ELSE InsertByDistance(SortByDistance(SubSeq(sq, 1, Len(sq) - 1)),
                          sq[Len(sq)])

\* interp1d(voltages, distances, kind='cubic', ...) raises for fewer than
\* four entries and for repeated voltages
FitRaises(ps) ==
    \/ Len(ps) < MinCubicPoints
    \/ \E i, j \in 1..Len(ps) : i < j /\ ps[i].voltage = ps[j].voltage

\* the interpolant through the (voltage, distance) pairs of ps, kept as ps
Fit(ps) == ps

\* mutant: with too few points the interpolant is dropped
Mut_update_interpolation(ps, func) ==
    IF Len(ps) < MinFitPoints THEN [func |-> NoFunc, raised |-> FALSE]
    ELSE IF FitRaises(ps) THEN [func |-> func, raised |-> TRUE]
    ELSE [func |-> Fit(ps), raised |-> FALSE]

\* update_interpolation: the interpolant afterwards and whether it raised
update_interpolation(ps, func) ==
    IF Len(ps) < MinFitPoints THEN [func |-> func, raised |-> FALSE]
    ELSE IF FitRaises(ps) THEN [func |-> func, raised |-> TRUE]
    ELSE [func |-> Fit(ps), raised |-> FALSE]

\* load_calibration on document doc from the state (pts, func, q, r): each
\* assignment made before an exception stays; the bare except returns False
LoadOutcome(doc, pts, func, q, r) ==
    IF doc.kind # "json" \/ "calibration_points" \notin doc.keys
    THEN [points |-> pts, func |-> func, q |-> q, r |-> r, ok |-> FALSE]
    ELSE
      LET pts1 == DecodePoints(doc.points)
          hasK == "kalman_params" \in doc.keys
      IN
      IF hasK /\ "q" \notin doc.keys
      THEN [points |-> pts1, func |-> func, q |-> q, r |-> r, ok |-> FALSE]
      ELSE
        LET q1 == IF hasK THEN DecodeNum(doc.q) ELSE q IN
        IF hasK /\ "r" \notin doc.keys
        THEN [points |-> pts1, func |-> func, q |-> q1, r |-> r,
              ok |-> FALSE]
        ELSE
          LET r1 == IF hasK THEN DecodeNum(doc.r) ELSE r
              u == IF Len(pts1) >= MinFitPoints
                   THEN update_interpolation(pts1, func)
                   ELSE [func |-> func, raised |-> FALSE]
          IN [points |-> pts1, func |-> u.func, q |-> q1, r |-> r1,
              ok |-> ~u.raised]

\* what __init__ leaves in kalman_q / kalman_r, given what load_calibration
\* put there: lines 59-60 run after the load of line 55
InitNoise(loaded, default) == default

\* GP2Y0A41SK0F.__init__ (also a restart of the program)
Construct ==
    /\ LET o == LoadOutcome(cal_file, <<>>, NoFunc, 0, 0) IN
        /\ calibration_points' = o.points
        /\ interpolation_func' = o.func
        /\ kalman_q' = InitNoise(o.q, DefaultQ)
        /\ kalman_r' = InitNoise(o.r, DefaultR)
        /\ load_result' = IF o.ok THEN "true" ELSE "false"
    /\ constructed' = TRUE
    /\ fit_result' = "none"
    /\ kalman_enabled' = TRUE
    /\ kalman_p' = InitialP
    /\ kalman_x' = InitialX
    /\ voltage_buffer' = <<>>
    /\ distance_buffer' = <<>>
    /\ readings_count' = 0
    /\ last_reading_time' = now
    /\ converted' = NoConv
    /\ stats' = NoStats
    /\ ret' = NoRet
    /\ sampled' = NoSamples
    /\ UNCHANGED scan
    /\ UNCHANGED <<cal_file, saved, calibrations, configs>>
    /\ UNCHANGED loggerVars

\* calibrate_point(actual_distance) with the sampled average and deviation;
\* an exception of update_interpolation leaves the appended point in place.
\* Each of the 50 read_voltage calls appends to the voltage history; the
\* last buffer_size of them are taken to be at the average
calibrate_point(d, smp) ==
    /\ constructed
    /\ calibrations < MaxCalibrations
    /\ Len(calibration_points) < MaxPoints
    /\ calibrations' = calibrations + 1
    /\ LET pts1 == SortByDistance(Append(calibration_points,
                       [distance |-> d, voltage |-> smp.voltage,
                        std |-> smp.std]))
       IN /\ calibration_points' = pts1
          /\ interpolation_func' =
                IF Len(pts1) >= MinFitPoints
                THEN update_interpolation(pts1, interpolation_func).func
                ELSE interpolation_func
    /\ load_result' = "none"
    /\ fit_result' = "none"
    /\ voltage_buffer' = [i \in 1..BufferSize |-> smp.voltage]
    /\ stats' = NoStats
    /\ ret' = NoRet
    /\ sampled' = NoSamples
    /\ UNCHANGED scan
    /\ UNCHANGED <<constructed, kalman_q, kalman_r, cal_file, saved, configs>>
    /\ UNCHANGED <<kalman_enabled, kalman_x, kalman_p, distance_buffer,
                   readings_count, last_reading_time, converted>>
    /\ UNCHANGED loggerVars

\* calibration_wizard, choice 2
clear_calibration ==
    /\ constructed
    /\ calibration_points' = <<>>
    /\ interpolation_func' = NoFunc
    /\ load_result' = "none"
    /\ fit_result' = "none"
    /\ UNCHANGED <<constructed, kalman_q, kalman_r, cal_file, saved,
                   calibrations, configs>>
    /\ UNCHANGED readVars
    /\ UNCHANGED scan
    /\ UNCHANGED loggerVars

\* save_calibration()
save_calibration ==
    /\ constructed
    /\ cal_file' = SaveDoc(calibration_points, kalman_q, kalman_r)
    /\ saved' = [valid |-> TRUE, points |-> calibration_points,
                 q |-> kalman_q, r |-> kalman_r]
    /\ load_result' = "none"
    /\ fit_result' = "none"
    /\ UNCHANGED <<constructed, calibration_points, interpolation_func,
                   kalman_q, kalman_r, calibrations, configs>>
    /\ UNCHANGED readVars
    /\ UNCHANGED scan
    /\ UNCHANGED loggerVars

\* load_calibration() after construction (calibration_wizard, choice 5)
load_calibration ==
    /\ constructed
    /\ LET o == LoadOutcome(cal_file, calibration_points, interpolation_func,
                            kalman_q, kalman_r) IN
        /\ calibration_points' = o.points
        /\ interpolation_func' = o.func
        /\ kalman_q' = o.q
        /\ kalman_r' = o.r
        /\ load_result' = IF o.ok THEN "true" ELSE "false"
    /\ fit_result' = "none"
    /\ UNCHANGED <<constructed, cal_file, saved, calibrations, configs>>
    /\ UNCHANGED readVars
    /\ UNCHANGED scan
    /\ UNCHANGED loggerVars

\* main menu of test_connection.py, choice 5: a blank entry keeps the value
configure_kalman(nq, nr) ==
    /\ constructed
    /\ configs < MaxConfigs
    /\ configs' = configs + 1
    /\ kalman_q' = IF nq # 0 THEN nq ELSE kalman_q
    /\ kalman_r' = IF nr # 0 THEN nr ELSE kalman_r
    /\ load_result' = "none"
    /\ fit_result' = "none"
    /\ UNCHANGED <<constructed, calibration_points, interpolation_func,
                   cal_file, saved, calibrations>>
    /\ UNCHANGED readVars
    /\ UNCHANGED scan
    /\ UNCHANGED loggerVars

\* ------------------------------------------------ GP2Y0A41SK0F read path
\* mutant: the value is passed on as it is
Mut_Clip(x, lo, hi) == x

\* np.clip(x, lo, hi)
Clip(x, lo, hi) == IF x < lo THEN lo ELSE IF x > hi THEN hi ELSE x

\* mutant: the low threshold test is missing
Mut_voltage_to_distance_default(v) ==
    IF v > 330 THEN MinDistance * 100
    ELSE IF v - 4 = 0 THEN MaxDistance * 100
    ELSE Clip((120000 \div (v - 4)) - 42, MinDistance * 100,
              MaxDistance * 100)

\* voltage_to_distance_default: voltage in hundredths of a volt, the result
\* in hundredths of a centimetre; a = 12.0, b = 0.04, c = 0.42. The division
\* is inside a try whose except branch yields max_distance
voltage_to_distance_default(v) ==
    IF v < 25 THEN MaxDistance * 100
    ELSE IF v > 330 THEN MinDistance * 100
    ELSE IF v - 4 = 0 THEN MaxDistance * 100
    ELSE Clip((120000 \div (v - 4)) - 42, MinDistance * 100,
              MaxDistance * 100)

\* how far the cubic through two neighbouring calibration points may swing
\* past them between the two, in hundredths of a centimetre
SplineSwing == 2000

\* float(self.interpolation_func(v)) for an interpolant through the points
\* func: outside the calibrated voltages the fill values (max_distance below,
\* min_distance above), at a calibrated voltage the distance of its point,
\* between two calibrated voltages one of: below both neighbours, between
\* them, above both
InterpOutcomes(func, v) ==
    LET vs == {func[i].voltage : i \in DOMAIN func}
        lo == CHOOSE x \in vs : \A y \in vs : x <= y
        hi == CHOOSE x \in vs : \A y \in vs : x >= y
    IN
    IF v < lo THEN {MaxDistance * 100}
    ELSE IF v > hi THEN {MinDistance * 100}
    ELSE IF v \in vs
    THEN {100 * func[i].distance : i \in {j \in DOMAIN func :
                                             func[j].voltage = v}}
    ELSE
      LET below == CHOOSE i \in DOMAIN func :
                      /\ func[i].voltage < v
                      /\ \A j \in DOMAIN func :
                           func[j].voltage < v
                             => func[j].voltage <= func[i].voltage
          above == CHOOSE i \in DOMAIN func :
                      /\ func[i].voltage > v
                      /\ \A j \in DOMAIN func :
                           func[j].voltage > v
                             => func[j].voltage >= func[i].voltage
          a == 100 * func[below].distance
          b == 100 * func[above].distance
      IN {(IF a < b THEN a ELSE b) - SplineSwing,
          (a + b) \div 2,
          (IF a < b THEN b ELSE a) + SplineSwing}

\* voltage_to_distance: the values it can return for voltage v, in
\* hundredths of a centimetre
voltage_to_distance(func, v) ==
    LET ds == IF func # NoFunc THEN InterpOutcomes(func, v)
              ELSE {voltage_to_distance_default(v)}
    IN {Clip(d, MinDistance * 100, MaxDistance * 100) : d \in ds}

\* mutant: the covariance is left at its predicted value
Mut_Posterior(p1, r) == p1

\* self.kalman_p = (1 - k) * self.kalman_p, k = kalman_p / (kalman_p + r)
Posterior(p1, r) == p1 - (p1 * p1) \div (p1 + r)

\* mutant: no prediction step, the gain is taken from the covariance as
\* the previous update left it
Mut_kalman_filter(enabled, x, p, q, r, measurement) ==
    IF ~enabled THEN [x |-> x, p |-> p, out |-> measurement]
    ELSE
      LET x1 == x + (p * (measurement - x)) \div (p + r)
          p2 == p - (p * p) \div (p + r)
      IN [x |-> x1, p |-> p2, out |-> x1]

\* kalman_filter(measurement): the estimate and covariance afterwards and
\* the value returned
kalman_filter(enabled, x, p, q, r, measurement) ==
    IF ~enabled THEN [x |-> x, p |-> p, out |-> measurement]
    ELSE
      LET p1 == p + q
          x1 == x + (p1 * (measurement - x)) \div (p1 + r)
          p2 == Posterior(p1, r)
      IN [x |-> x1, p |-> p2, out |-> x1]

\* deque(maxlen=buffer_size).append
PushBounded(buf, x) ==
    IF Len(buf) < BufferSize THEN Append(buf, x) ELSE Append(Tail(buf), x)

\* 1000 * exp(-a/b) for 0 <= a <= b, by its series up to the fourth power
ExpNeg(a, b) ==
    1000 - (1000 * a) \div b + (500 * a * a) \div (b * b)
         - (167 * a * a * a) \div (b * b * b)
         + (42 * a * a * a * a) \div (b * b * b * b)

\* np.exp(np.linspace(-1, 0, n))[i], i = 1..n, times 1000
Weight(i, n) == ExpNeg(n - i, n - 1)

RECURSIVE WeightedSum(_, _)
WeightedSum(buf, k) ==
    IF k = 0 THEN 0
    ELSE WeightedSum(buf, k - 1) + Weight(k, Len(buf)) * buf[k]

RECURSIVE WeightTotal(_, _)
WeightTotal(n, k) ==
    IF k = 0 THEN 0 ELSE WeightTotal(n, k - 1) + Weight(k, n)

\* mutant: the weights are not normalised by their sum
Mut_WeightedAverage(buf) ==
    CHOOSE avg \in {WeightedSum(b, Len(b)) \div 1000 : b \in {buf}} : TRUE

\* np.average(list(self.distance_buffer), weights=weights)
WeightedAverage(buf) ==
    CHOOSE avg \in {WeightedSum(b, Len(b)) \div WeightTotal(Len(b), Len(b)) :
                       b \in {buf}} : TRUE

\* mutant: the estimator and the smoothing run on unfiltered reads as well
Mut_ReadDistance(filtered, raw, enabled, x, p, q, r, buf) ==
    LET k == kalman_filter(enabled, x, p, q, r, raw)
        buf1 == PushBounded(buf, k.out)
    IN [x |-> k.x, p |-> k.p, buf |-> buf1,
        out |-> IF Len(buf1) > 3 THEN WeightedAverage(buf1) ELSE k.out]

\* read_distance after its read_voltage and voltage_to_distance: the
\* estimator, the smoothing buffer and the value returned, given the
\* converted distance raw
ReadDistance(filtered, raw, enabled, x, p, q, r, buf) ==
    IF filtered
    THEN LET k == kalman_filter(enabled, x, p, q, r, raw)
             buf1 == PushBounded(buf, k.out)
         IN [x |-> k.x, p |-> k.p, buf |-> buf1,
             out |-> IF Len(buf1) > 3 THEN WeightedAverage(buf1)
                     ELSE k.out]
    ELSE [x |-> x, p |-> p, buf |-> buf, out |-> raw]

\* the SensorDataLogger state but the clock
loggerState == <<running, session_start, log_thread, log_rows, data_queue,
                 total_readings, pc, interval, cur, sleep_arg, mainpc,
                 last_deq, faults, starts, stop_seen>>

\* read_distance(filtered) when read_voltage yields the averaged voltage v,
\* for behaviours of at most cap sensor acquisitions
ReadStep(filtered, v, cap) ==
    /\ constructed
    /\ acquired < cap
    /\ acquired' = acquired + 1
    /\ \E raw \in voltage_to_distance(interpolation_func, v) :
         \E o \in {ReadDistance(filtered, raw, kalman_enabled, kalman_x,
                                kalman_p, kalman_q, kalman_r,
                                distance_buffer)} :
            /\ kalman_x' = o.x
            /\ kalman_p' = o.p
            /\ distance_buffer' = o.buf
            /\ ret' = [filtered |-> filtered, raw |-> raw, out |-> o.out]
    /\ sampled' = NoSamples
    /\ UNCHANGED scan
    /\ voltage_buffer' = PushBounded(voltage_buffer, v)
    /\ readings_count' = readings_count + 1
    /\ last_reading_time' = now
    /\ stats' = NoStats
    /\ UNCHANGED <<kalman_enabled, converted>>
    /\ UNCHANGED calVars
    /\ UNCHANGED loggerState

\* read_distance(filtered) in the behaviours of at most MaxAcq acquisitions
read_distance(filtered, v) == ReadStep(filtered, v, MaxAcq)

\* a direct call of voltage_to_distance(voltage) (test_mode)
Convert(v) ==
    /\ constructed
    /\ \E d \in voltage_to_distance(interpolation_func, v) :
         converted' = [voltage |-> v, distance |-> d]
    /\ UNCHANGED <<kalman_enabled, kalman_x, kalman_p, voltage_buffer,
                   distance_buffer, readings_count, last_reading_time, stats,
                   ret, sampled>>
    /\ UNCHANGED scan
    /\ UNCHANGED calVars
    /\ UNCHANGED loggerVars

\* voltage_to_distance_default(voltage) called on its own
ConvertDefault(v) ==
    /\ constructed
    /\ converted' = [voltage |-> v,
                     distance |-> voltage_to_distance_default(v)]
    /\ UNCHANGED <<kalman_enabled, kalman_x, kalman_p, voltage_buffer,
                   distance_buffer, readings_count, last_reading_time, stats,
                   ret, sampled>>
    /\ UNCHANGED scan
    /\ UNCHANGED calVars
    /\ UNCHANGED loggerVars

RECURSIVE SeqSum(_)
SeqSum(sq) == IF sq = <<>> THEN 0 ELSE sq[1] + SeqSum(Tail(sq))

\* sorted(sq), by insertion
RECURSIVE SortAscending(_)
SortAscending(sq) ==
    IF sq = <<>> THEN <<>>
    ELSE LET rest == SortAscending(Tail(sq))
             x == Head(sq)
             k == Cardinality({i \in DOMAIN rest : rest[i] < x})
         IN SubSeq(rest, 1, k) \o <<x>> \o SubSeq(rest, k + 1, Len(rest))

\* four times np.percentile(sq, 25 * k), k = 1 or 3: linear interpolation
\* between the two sorted samples around position (n - 1) * k / 4
QuartileX4(sq, k) ==
    LET srt == SortAscending(sq)
        pos == (Len(sq) - 1) * k
        lo == pos \div 4 + 1
        frac == pos % 4
    IN IF frac = 0 THEN 4 * srt[lo]
       ELSE 4 * srt[lo] + frac * (srt[lo + 1] - srt[lo])

\* the samples within [q1 - 1.5 * iqr, q3 + 1.5 * iqr], in their order
\* (both sides of the comparison are taken eight times)
Inliers(sq) ==
    LET q1 == QuartileX4(sq, 1)
        q3 == QuartileX4(sq, 3)
        iqr == q3 - q1
        lower == 2 * q1 - 3 * iqr
        upper == 2 * q3 + 3 * iqr
    IN SelectSeq(sq, LAMBDA x : lower <= 8 * x /\ 8 * x <= upper)

\* mutant: the sum of the kept samples over the number of samples taken
Mut_Mean(kept, taken) == SeqSum(kept) \div Len(taken)

\* np.mean(filtered)
Mean(kept, taken) == SeqSum(kept) \div Len(kept)

\* what read_voltage returns for the raw samples sq
ReadVoltage(sq) ==
    LET filtered == IF Inliers(sq) = <<>> THEN sq ELSE Inliers(sq)
    IN Mean(filtered, sq)

\* read_voltage(samples=Len(sq)) called on its own (the calibration loop,
\* the logging loop), the channel yielding the raw samples sq
read_voltage(sq) ==
    /\ constructed
    /\ acquired < MaxReads
    /\ acquired' = acquired + 1
    /\ sampled' = sq
    /\ UNCHANGED scan
    /\ voltage_buffer' = PushBounded(voltage_buffer, ReadVoltage(sq))
    /\ stats' = NoStats
    /\ ret' = NoRet
    /\ UNCHANGED <<kalman_enabled, kalman_x, kalman_p, distance_buffer,
                   readings_count, last_reading_time, converted>>
    /\ UNCHANGED calVars
    /\ UNCHANGED loggerState

\* what get_statistics returns (the deviations are left out): None while
\* distance_buffer is empty; rate_hz is kept as its inverse, the time since
\* the last reading
GetStatistics(dbuf, vbuf, count, since) ==
    IF Len(dbuf) = 0 THEN [kind |-> "None"]
    ELSE [kind |-> "snapshot",
          readings_count |-> count,
          current |-> dbuf[Len(dbuf)],
          mean |-> SeqSum(dbuf) \div Len(dbuf),
          min |-> CHOOSE x \in {dbuf[i] : i \in DOMAIN dbuf} :
                     \A i \in DOMAIN dbuf : x <= dbuf[i],
          max |-> CHOOSE x \in {dbuf[i] : i \in DOMAIN dbuf} :
                     \A i \in DOMAIN dbuf : x >= dbuf[i],
          voltage |-> IF vbuf # <<>> THEN vbuf[Len(vbuf)] ELSE 0,
          period |-> since]

get_statistics ==
    /\ constructed
    /\ stats' = GetStatistics(distance_buffer, voltage_buffer, readings_count,
                              now - last_reading_time)
    /\ UNCHANGED <<kalman_enabled, kalman_x, kalman_p, voltage_buffer,
                   distance_buffer, readings_count, last_reading_time,
                   converted, ret, sampled>>
    /\ UNCHANGED scan
    /\ UNCHANGED calVars
    /\ UNCHANGED loggerVars

\* main menu of sensor_distance.py, choice 4: the three entries are read in
\* turn inside one try; an entry that is not a number (0 here) ends it with
\* the assignments made so far
configure_filter(nq, nr, en) ==
    /\ constructed
    /\ configs < MaxConfigs
    /\ configs' = configs + 1
    /\ kalman_q' = IF nq # 0 THEN nq ELSE kalman_q
    /\ kalman_r' = IF nq # 0 /\ nr # 0 THEN nr ELSE kalman_r
    /\ kalman_enabled' = IF nq # 0 /\ nr # 0 THEN en ELSE kalman_enabled
    /\ load_result' = "none"
    /\ fit_result' = "none"
    /\ UNCHANGED <<constructed, calibration_points, interpolation_func,
                   cal_file, saved, calibrations>>
    /\ UNCHANGED <<kalman_x, kalman_p, voltage_buffer, distance_buffer,
                   readings_count, last_reading_time, converted, stats,
                   ret, sampled>>
    /\ UNCHANGED scan
    /\ UNCHANGED loggerVars

\* a direct call of update_interpolation()
UpdateInterpolation ==
    /\ constructed
    /\ LET u == update_interpolation(calibration_points, interpolation_func)
       IN /\ interpolation_func' = u.func
          /\ fit_result' = IF u.raised THEN "raised" ELSE "returned"
    /\ load_result' = "none"
    /\ UNCHANGED <<constructed, calibration_points, kalman_q, kalman_r,
                   cal_file, saved, calibrations, configs>>
    /\ UNCHANGED readVars
    /\ UNCHANGED scan
    /\ UNCHANGED loggerVars

\* ------------------------------------------------- SensorDataLogger model
NoReading == [seq |-> 0, timestamp |-> 0, elapsed |-> 0, voltage |-> 0,
              distance_raw |-> 0, distance |-> 0]

Live(t) == pc[t] # "none"
LiveThreads == {t \in Threads : Live(t)}
FreeThreads == {t \in Threads : ~Live(t)}
Min(S) == CHOOSE x \in S : \A y \in S : x <= y

\* SensorDataLogger.__init__
LoggerInit ==
    /\ running = FALSE
    /\ session_start = None
    /\ log_thread = None
    /\ log_rows = FALSE
    /\ data_queue = <<>>
    /\ total_readings = 0
    /\ pc = [t \in Threads |-> "none"]
    /\ interval = [t \in Threads |-> 0]
    /\ cur = [t \in Threads |-> NoReading]
    /\ sleep_arg = [t \in Threads |-> 0]
    /\ mainpc = "ready"
    /\ last_deq = NoReading
    /\ acquired = 0
    /\ faults = 0
    /\ starts = 0
    /\ stop_seen = [t \in Threads |-> FALSE]

\* whether start_logging goes on to spawn a producer: the code has no test of
\* self.running (or of anything else)
StartSpawns(isRunning) == TRUE

\* start_logging(interval): the flag, the start time and the log file are
\* (re)written and a new thread is spawned
start_logging(iv) ==
    /\ mainpc = "ready"
    /\ starts < MaxStarts
    /\ FreeThreads # {}
    /\ starts' = starts + 1
    /\ IF StartSpawns(running)
       THEN LET t == Min(FreeThreads) IN
            /\ running' = TRUE
            /\ session_start' = now
            /\ log_rows' = FALSE
            /\ log_thread' = t
            /\ pc' = [pc EXCEPT ![t] = "check"]
            /\ interval' = [interval EXCEPT ![t] = iv]
            /\ stop_seen' = [stop_seen EXCEPT ![t] = FALSE]
       ELSE UNCHANGED <<running, session_start, log_rows, log_thread, pc,
                        interval, stop_seen>>
    /\ UNCHANGED <<data_queue, total_readings, cur, sleep_arg, mainpc,
                   last_deq, acquired, faults>>
    /\ UNCHANGED sensorVars
    /\ UNCHANGED scan

\* whether the loop goes round again, given self.running
LoopContinues(isRunning) == isRunning

\* "while self.running:" - the only place the flag is read; the thread ends
\* when it reads False
LoopCheck(t) ==
    /\ pc[t] = "check"
    /\ IF LoopContinues(running)
       THEN /\ pc' = [pc EXCEPT ![t] = "read"]
            /\ UNCHANGED <<interval, stop_seen>>
       ELSE /\ pc' = [pc EXCEPT ![t] = "none"]
            /\ interval' = [interval EXCEPT ![t] = 0]
            /\ stop_seen' = [stop_seen EXCEPT ![t] = FALSE]
    /\ UNCHANGED <<running, session_start, log_thread, log_rows, data_queue,
                   total_readings, cur, sleep_arg, mainpc, last_deq, acquired,
                   faults, starts>>
    /\ UNCHANGED sensorVars
    /\ UNCHANGED scan

\* lines 73-97: timestamp, elapsed, the sensor reads, the log_data record.
\* read_voltage(samples=5) yields v1 and appends it to the voltage history;
\* read_distance(filtered=True) takes its own read_voltage(), v2, and runs
\* the estimator and the smoothing on its conversion; distance_raw is the
\* conversion of v1. The averaged voltages are drawn from V
LoopRead(t, cap, V) ==
    /\ pc[t] = "read"
    /\ acquired < cap
    /\ acquired' = acquired + 1
    /\ \E v1 \in V, v2 \in V :
         \E raw1 \in voltage_to_distance(interpolation_func, v1),
            raw2 \in voltage_to_distance(interpolation_func, v2) :
           \E o \in {ReadDistance(TRUE, raw2, kalman_enabled, kalman_x,
                                  kalman_p, kalman_q, kalman_r,
                                  distance_buffer)} :
              /\ voltage_buffer' =
                    PushBounded(PushBounded(voltage_buffer, v1), v2)
              /\ kalman_x' = o.x
              /\ kalman_p' = o.p
              /\ distance_buffer' = o.buf
              /\ cur' = [cur EXCEPT ![t] =
                            [seq |-> acquired + 1,
                             timestamp |-> now,
                             elapsed |-> now - session_start,
                             voltage |-> v1,
                             distance_raw |-> raw1,
                             distance |-> o.out]]
    /\ readings_count' = readings_count + 1
    /\ last_reading_time' = now
    /\ pc' = [pc EXCEPT ![t] = "publish"]
    /\ UNCHANGED <<running, session_start, log_thread, log_rows, data_queue,
                   total_readings, interval, sleep_arg, mainpc, last_deq,
                   faults, starts, stop_seen>>
    /\ stats' = NoStats
    /\ ret' = NoRet
    /\ sampled' = NoSamples
    /\ UNCHANGED scan
    /\ UNCHANGED <<kalman_enabled, converted>>
    /\ UNCHANGED calVars

\* queue.Queue() has maxsize 0: put appends, drops nothing and never waits
QueuePut(q, item) == Append(q, item)
\* mutant: a bounded queue whose put waits while the queue is full
Mut_QueueCanPut(q) == Len(q) < 2
QueueCanPut(q) == TRUE

\* lines 100-110: the row is appended to the CSV file, log_data is put on the
\* queue, total_readings is incremented and the thread sleeps for interval
\* (the increment is taken as one step)
LoopPublish(t) ==
    /\ pc[t] = "publish"
    /\ QueueCanPut(data_queue)
    /\ log_rows' = TRUE
    /\ data_queue' = QueuePut(data_queue, cur[t])
    /\ total_readings' = total_readings + 1
    /\ cur' = [cur EXCEPT ![t] = NoReading]
    /\ sleep_arg' = [sleep_arg EXCEPT ![t] = interval[t]]
    /\ pc' = [pc EXCEPT ![t] = "sleep"]
    /\ UNCHANGED <<running, session_start, log_thread, interval, mainpc,
                   last_deq, acquired, faults, starts, stop_seen>>
    /\ UNCHANGED sensorVars
    /\ UNCHANGED scan

\* line 110: time.sleep(interval) returns
LoopSleep(t) ==
    /\ pc[t] = "sleep"
    /\ sleep_arg' = [sleep_arg EXCEPT ![t] = 0]
    /\ pc' = [pc EXCEPT ![t] = "check"]
    /\ UNCHANGED <<running, session_start, log_thread, log_rows, data_queue,
                   total_readings, interval, cur, mainpc, last_deq, acquired,
                   faults, starts, stop_seen>>
    /\ UNCHANGED sensorVars
    /\ UNCHANGED scan

\* where "except Exception" sends a thread whose iteration raised
\* mutant: the except branch outside the loop, an exception ends the thread
Mut_ExceptTarget == "none"
ExceptTarget == "backoff"

\* lines 112-114: an exception in the sensor reads or in the file append is
\* caught inside the loop; it is printed and the thread sleeps 1 s
LoopRaise(t) ==
    /\ pc[t] \in {"read", "publish"}
    /\ faults < MaxFaults
    /\ faults' = faults + 1
    /\ cur' = [cur EXCEPT ![t] = NoReading]
    /\ sleep_arg' = [sleep_arg EXCEPT ![t] = RecoveryDelay]
    /\ pc' = [pc EXCEPT ![t] = ExceptTarget]
    /\ UNCHANGED <<running, session_start, log_thread, log_rows, data_queue,
                   total_readings, interval, mainpc, last_deq, acquired,
                   starts, stop_seen>>
    /\ UNCHANGED sensorVars
    /\ UNCHANGED scan

\* line 114: time.sleep(1) returns
LoopBackoff(t) ==
    /\ pc[t] = "backoff"
    /\ sleep_arg' = [sleep_arg EXCEPT ![t] = 0]
    /\ pc' = [pc EXCEPT ![t] = "check"]
    /\ UNCHANGED <<running, session_start, log_thread, log_rows, data_queue,
                   total_readings, interval, cur, mainpc, last_deq, acquired,
                   faults, starts, stop_seen>>
    /\ UNCHANGED sensorVars
    /\ UNCHANGED scan

\* mutant: the join is made whether or not a thread was ever started
Mut_HasThread(thread) == TRUE

\* hasattr(self, 'log_thread')
HasThread(thread) == thread # None

\* stop_logging up to the join: clears the flag, then joins self.log_thread
\* (the thread of the latest start_logging only) when the attribute exists;
\* the join of a stop_logging called on a session that was not running is
\* told apart as "joining_again"
stop_logging ==
    /\ mainpc = "ready"
    /\ running' = FALSE
    /\ stop_seen' = [t \in Threads |-> stop_seen[t] \/ (running /\ Live(t))]
    /\ mainpc' = IF HasThread(log_thread)
                 THEN (IF running THEN "joining" ELSE "joining_again")
                 ELSE "ready"
    /\ UNCHANGED <<session_start, log_thread, log_rows, data_queue,
                   total_readings, pc, interval, cur, sleep_arg, last_deq,
                   acquired, faults, starts>>
    /\ UNCHANGED sensorVars
    /\ UNCHANGED scan

\* self.log_thread.join() returns once that thread has ended
stop_logging_join ==
    /\ mainpc \in {"joining", "joining_again"}
    /\ log_thread # None
    /\ ~Live(log_thread)
    /\ mainpc' = "ready"
    /\ UNCHANGED <<running, session_start, log_thread, log_rows, data_queue,
                   total_readings, pc, interval, cur, sleep_arg, last_deq,
                   acquired, faults, starts, stop_seen>>
    /\ UNCHANGED sensorVars
    /\ UNCHANGED scan

\* update_plot: data = self.data_queue.get_nowait(), one item per pass of
\* its while loop; runs on the main thread
update_plot ==
    /\ mainpc = "ready"
    /\ data_queue # <<>>
    /\ last_deq' = Head(data_queue)
    /\ data_queue' = Tail(data_queue)
    /\ UNCHANGED <<running, session_start, log_thread, log_rows,
                   total_readings, pc, interval, cur, sleep_arg, mainpc,
                   acquired, faults, starts, stop_seen>>
    /\ UNCHANGED sensorVars
    /\ UNCHANGED scan

\* ------------------------------------------------------------ run_scan model
STEPS_POR_REVOLUCAO == 200
MICROSTEPPING == 16
TOTAL_MICROSTEPS_360_GRAUS == STEPS_POR_REVOLUCAO * MICROSTEPPING
STEPS_POR_MEDICAO == 8
\* num_medicoes = TOTAL_MICROSTEPS_360_GRAUS // STEPS_POR_MEDICAO
num_medicoes == TOTAL_MICROSTEPS_360_GRAUS \div STEPS_POR_MEDICAO

\* run_scan up to its first sleep: the banner, results = [], motor.enable()
ScanStart ==
    /\ constructed
    /\ scan.pc = "idle"
    /\ scan' = [pc |-> "waiting", enabled |-> TRUE, i |-> 0, results |-> 0,
                base |-> readings_count, outcome |-> "none"]
    /\ UNCHANGED <<loggerVars, sensorVars>>

\* time.sleep(1.0) returns and the try block is entered
ScanWaitOver ==
    /\ scan.pc = "waiting"
    /\ scan' = [scan EXCEPT !.pc = "read"]
    /\ UNCHANGED <<loggerVars, sensorVars>>

\* Ctrl+C during time.sleep(1.0): the KeyboardInterrupt is raised outside
\* the try statement and leaves run_scan
ScanWaitInterrupted ==
    /\ scan.pc = "waiting"
    /\ scan' = [scan EXCEPT !.pc = "done", !.outcome = "interrupted"]
    /\ UNCHANGED <<loggerVars, sensorVars>>

\* distance = sensor.read_distance(filtered=True) of iteration i
ScanRead(v) ==
    /\ scan.pc = "read"
    /\ readings_count = scan.base + scan.i
    /\ ReadStep(TRUE, v, num_medicoes)

\* results.append((current_angle, distance)) and the progress line
ScanAppend ==
    /\ scan.pc = "read"
    /\ readings_count = scan.base + scan.i + 1
    /\ scan' = [scan EXCEPT !.results = @ + 1, !.pc = "move"]
    /\ UNCHANGED <<loggerVars, sensorVars>>

\* motor.move_steps(STEPS_POR_MEDICAO): enables the driver when it is not
\* enabled, then pulses; time.sleep(DELAY_APOS_MOVER); the for loop goes to
\* its next index or ends, and the finally block follows
ScanMove ==
    /\ scan.pc = "move"
    /\ scan' = [scan EXCEPT
                  !.enabled = TRUE,
                  !.i = @ + 1,
                  !.pc = IF scan.i + 1 < num_medicoes THEN "read"
                         ELSE "finally",
                  !.outcome = IF scan.i + 1 < num_medicoes THEN "none"
                              ELSE "completed"]
    /\ UNCHANGED <<loggerVars, sensorVars>>

\* Ctrl+C inside the try block: except KeyboardInterrupt, then finally
ScanInterrupt ==
    /\ scan.pc \in {"read", "move"}
    /\ scan' = [scan EXCEPT !.pc = "finally", !.outcome = "interrupted"]
    /\ UNCHANGED <<loggerVars, sensorVars>>

\* the sensor read or the motor step raises: no except clause matches, the
\* finally block runs and the exception leaves run_scan
ScanRaise ==
    /\ scan.pc \in {"read", "move"}
    /\ scan' = [scan EXCEPT !.pc = "finally", !.outcome = "raised"]
    /\ UNCHANGED <<loggerVars, sensorVars>>

\* finally: motor.disable(), and the results are written to a CSV file
ScanFinally ==
    /\ scan.pc = "finally"
    /\ scan' = [scan EXCEPT !.pc = "done", !.enabled = FALSE]
    /\ UNCHANGED <<loggerVars, sensorVars>>

\* ------------------------------------------------ initial states and specs
\* the read path as __init__ leaves it (lines 47-66)
ReadInit ==
    /\ kalman_enabled = TRUE
    /\ kalman_x = InitialX
    /\ kalman_p = InitialP
    /\ voltage_buffer = <<>>
    /\ distance_buffer = <<>>
    /\ readings_count = 0
    /\ last_reading_time = 0
    /\ converted = NoConv
    /\ stats = NoStats
    /\ ret = NoRet
    /\ sampled = NoSamples
    /\ scan = NoScan

NotSaved == [valid |-> FALSE, points |-> <<>>, q |-> 0, r |-> 0]

\* the sensor as __init__ leaves it when no calibration file exists
SensorInit ==
    /\ constructed = TRUE
    /\ calibration_points = <<>>
    /\ interpolation_func = NoFunc
    /\ kalman_q = DefaultQ
    /\ kalman_r = DefaultR
    /\ cal_file = NoFile
    /\ load_result = "false"
    /\ saved = NotSaved
    /\ calibrations = 0
    /\ configs = 0
    /\ fit_result = "none"
    /\ ReadInit

\* files found at the first start: none, one that is not JSON, a record
\* whose kalman_params lacks r, a record written by save_calibration after
\* a four-point calibration with Q = R = 0.5, and one written after a
\* two-point calibration
InitialPoints == <<[distance |-> 5, voltage |-> 300, std |-> 2],
                   [distance |-> 10, voltage |-> 180, std |-> 1],
                   [distance |-> 15, voltage |-> 120, std |-> 0],
                   [distance |-> 25, voltage |-> 45, std |-> 1]>>
InitialFiles ==
    {NoFile,
     [NoFile EXCEPT !.kind = "garbage"],
     [SaveDoc(InitialPoints, 50, 50) EXCEPT
         !.keys = {"sensor", "timestamp", "calibration_points",
                   "kalman_params", "q"}, !.r = <<>>],
     SaveDoc(InitialPoints, 50, 50),
     SaveDoc(SubSeq(InitialPoints, 1, 2), DefaultQ, DefaultR)}

\* before the program starts, with any of the initial files
CalInit ==
    /\ LoggerInit
    /\ constructed = FALSE
    /\ calibration_points = <<>>
    /\ interpolation_func = NoFunc
    /\ kalman_q = 0
    /\ kalman_r = 0
    /\ cal_file \in InitialFiles
    /\ load_result = "none"
    /\ saved = NotSaved
    /\ calibrations = 0
    /\ configs = 0
    /\ fit_result = "none"
    /\ ReadInit

CalNext ==
    \/ Construct
    \/ \E d \in Distances, smp \in Samples : calibrate_point(d, smp)
    \/ clear_calibration
    \/ save_calibration
    \/ load_calibration
    \/ UpdateInterpolation
    \/ \E nq \in NoiseInputs, nr \in NoiseInputs : configure_kalman(nq, nr)

CalSpec == CalInit /\ [][CalNext]_vars

\* voltages handed to voltage_to_distance: below the 0.25 V threshold and
\* the calibrated voltages, at the threshold, at calibrated voltages (120,
\* 310), between two of them, and above 3.3 V and the calibrated voltages
ConvVoltages == {10, 25, 120, 200, 310, 340}

\* voltages handed to voltage_to_distance_default: below 0 V, 0 V, below
\* b = 0.04, b itself, between b and the low threshold 0.25, at both
\* thresholds and next to them, in between, and above 3.3 V
DefaultVoltages == {-5, 0, 2, 4, 10, 24, 25, 120, 330, 331, 340}

\* conversions in every calibration state the wizard can bring about
ConvNext ==
    \/ Construct
    \/ \E d \in Distances, smp \in Samples : calibrate_point(d, smp)
    \/ clear_calibration
    \/ load_calibration
    \/ \E v \in ConvVoltages : Convert(v)
    \/ \E v \in DefaultVoltages : ConvertDefault(v)

ConvSpec == CalInit /\ [][ConvNext]_vars

\* averaged voltage in front of a target close to the sensor
MenuVoltages == {310}
\* the record found at the start of the menu-driven program: written by
\* save_calibration after a four-point calibration with Q = R = 0.5
MenuInit ==
    /\ CalInit
    /\ cal_file = SaveDoc(InitialPoints, 50, 50)
\* interval typed into the data logger menu: 0.2 s
MenuIntervals == {2}

\* the main thread is at a menu prompt: the sensor exists and no logging
\* session is under way (the menus call start_logging and stop_logging in
\* pairs and block in between)
AtMenu == constructed /\ mainpc = "ready" /\ ~running

\* the program as its menus drive it (test_connection.py, and the Kalman
\* menu and test mode of sensor_distance.py)
MenuNext ==
    \/ ~constructed /\ Construct
    \/ AtMenu /\ calibrate_point(15, [voltage |-> 120, std |-> 0])
    \/ AtMenu /\ clear_calibration
    \/ AtMenu /\ load_calibration
    \/ AtMenu /\ \E nq \in {20} : configure_kalman(nq, 0)
    \/ AtMenu /\ \E en \in {FALSE} : configure_filter(20, 20, en)
    \/ AtMenu /\ acquired < MaxReads
              /\ \E f \in BOOLEAN, v \in MenuVoltages : read_distance(f, v)
    \/ AtMenu /\ starts < MaxSessions
              /\ \E iv \in MenuIntervals : start_logging(iv)
    \/ stop_logging
    \/ stop_logging_join
    \/ \E t \in Threads : LoopCheck(t)
    \/ \E t \in Threads : LoopRead(t, MaxReads, MenuVoltages)
    \/ \E t \in Threads : LoopPublish(t)
    \/ \E t \in Threads : LoopSleep(t)

MenuSpec == MenuInit /\ [][MenuNext]_vars

\* averaged voltages handed to the reads of ReadSpec
ReadVoltages == {120, 310}

\* the sensor on its own: reads and statistics between calibration steps
ReadNext ==
    \/ ~constructed /\ Construct
    \/ calibrate_point(15, [voltage |-> 120, std |-> 0])
    \/ clear_calibration
    \/ load_calibration
    \/ \E f \in BOOLEAN, v \in ReadVoltages : read_distance(f, v)
    \/ get_statistics

ReadSpec == MenuInit /\ [][ReadNext]_vars

Init == LoggerInit /\ SensorInit

Next ==
    \/ \E iv \in Intervals : start_logging(iv)
    \/ stop_logging
    \/ stop_logging_join
    \/ update_plot
    \/ \E t \in Threads : LoopCheck(t)
    \/ \E t \in Threads : LoopRead(t, MaxAcq, SteadyVoltages)
    \/ \E t \in Threads : LoopPublish(t)
    \/ \E t \in Threads : LoopSleep(t)
    \/ \E t \in Threads : LoopRaise(t)
    \/ \E t \in Threads : LoopBackoff(t)

Spec == Init /\ [][Next]_vars

\* the scenario of the manual logging mode: a producer at 10 Hz whose sensor
\* reads return, and nothing that takes Readings off the queue
BacklogNext ==
    \/ start_logging(1)
    \/ stop_logging
    \/ stop_logging_join
    \/ \E t \in Threads : LoopCheck(t)
    \/ \E t \in Threads : LoopRead(t, MaxBacklog, SteadyVoltages)
    \/ \E t \in Threads : LoopPublish(t)
    \/ \E t \in Threads : LoopSleep(t)

BacklogSpec == Init /\ [][BacklogNext]_vars

\* the scenario of an unresponsive consumer: sensor reads return, the threads
\* are scheduled fairly, update_plot may or may not run
LiveNext ==
    \/ \E iv \in Intervals : start_logging(iv)
    \/ stop_logging
    \/ stop_logging_join
    \/ update_plot
    \/ \E t \in Threads : LoopCheck(t)
    \/ \E t \in Threads : LoopRead(t, MaxAcq, SteadyVoltages)
    \/ \E t \in Threads : LoopPublish(t)
    \/ \E t \in Threads : LoopSleep(t)

LiveSpec ==
    /\ Init
    /\ [][LiveNext]_vars
    /\ \A t \in Threads :
         WF_vars(LoopCheck(t) \/ LoopRead(t, MaxAcq, SteadyVoltages) \/ LoopPublish(t)
                 \/ LoopSleep(t))

\* averaged voltages in front of a target out of range (the conversion
\* saturates at 30 cm) and of one at about 10 cm
FilterVoltages == {10, 120}

\* the sensor read again and again, filtered or not, with the filter switched
\* in the Kalman menu of sensor_distance.py in between
FilterNext ==
    \/ \E f \in BOOLEAN, v \in FilterVoltages : ReadStep(f, v, MaxFiltered)
    \/ \E en \in BOOLEAN : configure_filter(20, 20, en)

FilterSpec == Init /\ [][FilterNext]_vars

\* resolution of the covariance and the noise parameters in GainSpec:
\* hundredths of the hundredths used elsewhere, so that the covariance is
\* followed over several updates without rounding to a standstill
Fine == 100
\* measurement noise in GainSpec: the default 0.1, and 0.5
GainNoise == {10 * Fine, 50 * Fine}

\* the sensor after Q = 0 and R > 0 were entered in the Kalman menu
GainInit ==
    /\ LoggerInit
    /\ constructed = TRUE
    /\ calibration_points = <<>>
    /\ interpolation_func = NoFunc
    /\ kalman_q = 0
    /\ kalman_r \in GainNoise
    /\ cal_file = NoFile
    /\ load_result = "none"
    /\ saved = NotSaved
    /\ calibrations = 0
    /\ configs = 0
    /\ fit_result = "none"
    /\ kalman_enabled = TRUE
    /\ kalman_x = InitialX
    /\ kalman_p = InitialP * Fine
    /\ voltage_buffer = <<>>
    /\ distance_buffer = <<>>
    /\ readings_count = 0
    /\ last_reading_time = 0
    /\ converted = NoConv
    /\ stats = NoStats
    /\ ret = NoRet
    /\ sampled = NoSamples
    /\ scan = NoScan

\* reads of a target at rest, or of one that moves between reads
GainNext ==
    \E f \in BOOLEAN, v \in FilterVoltages : ReadStep(f, v, MaxFiltered)

GainSpec == GainInit /\ [][GainNext]_vars

\* raw channel voltages: a steady level and a spike
RawVoltages == {100, 330}

RECURSIVE SeqsUpTo(_, _)
\* the sequences over S of length 1 to n
SeqsUpTo(S, n) ==
    IF n = 0 THEN {}
    ELSE LET shorter == SeqsUpTo(S, n - 1)
         IN {<<x>> : x \in S}
              \cup shorter
              \cup {Append(sq, x) : sq \in shorter, x \in S}

SampleSets == SeqsUpTo(RawVoltages, MaxSamples)

\* the averaged voltage read again and again from a noisy channel
SampleNext ==
    \E sq \in SampleSets : read_voltage(sq)

SampleSpec == Init /\ [][SampleNext]_vars

\* the data logger menu of test_connection.py on one SensorDataLogger:
\* sessions are started from the menu only (start_logging and stop_logging
\* come in pairs), with or without live_plot taking Readings off the queue
SessionNext ==
    \/ AtMenu /\ \E iv \in Intervals : start_logging(iv)
    \/ stop_logging
    \/ stop_logging_join
    \/ update_plot
    \/ \E t \in Threads : LoopCheck(t)
    \/ \E t \in Threads : LoopRead(t, MaxAcq, SteadyVoltages)
    \/ \E t \in Threads : LoopPublish(t)
    \/ \E t \in Threads : LoopSleep(t)

SessionSpec == Init /\ [][SessionNext]_vars

\* scanner mode of test_connection.py: one scan in front of a scene at rest
ScanNext ==
    \/ ScanStart
    \/ ScanWaitOver
    \/ ScanWaitInterrupted
    \/ \E v \in SteadyVoltages : ScanRead(v)
    \/ ScanAppend
    \/ ScanMove
    \/ ScanInterrupt
    \/ ScanRaise
    \/ ScanFinally

ScanSpec == Init /\ [][ScanNext]_vars

\* ------------------------------------------------------------------ claims

\* C1: the hand-off queue never holds more than the configured capacity of
\* 10 Readings (a publish into a full queue drops the oldest one).
C1_QueueBounded == Len(data_queue) <= 10

\* C2: at most one producer thread is alive at any time, and start_logging
\* on a Running session changes nothing: no thread is spawned, the session
\* start time and the log file are kept.
C2_SingleProducer ==
    [][/\ Cardinality(LiveThreads') <= 1
       /\ (running /\ starts' = starts + 1)
            => UNCHANGED <<pc, log_thread, session_start, log_rows>>]_vars

\* C3: publishing never blocks: while the session is Running the count of
\* completed iterations goes on increasing, whether or not anything is ever
\* taken off the queue. total_readings is never reset and only moves by one,
\* so it reaches the acquisition bound only by passing through every count
\* below it: a Running session never stays short of the bound forever.
C3_NoStall ==
    (running /\ total_readings < MaxAcq)
        ~> (~running \/ total_readings = MaxAcq)

C3_Witness ==
    /\ running
    /\ last_deq = NoReading
    /\ Len(data_queue) = MaxAcq
    /\ total_readings = MaxAcq

\* C4: Readings are dequeued in acquisition order: whatever is still queued
\* was acquired after the Reading dequeued last, and the queue itself is in
\* acquisition order.
C4_AcquisitionOrder ==
    /\ \A i \in 1..Len(data_queue) : last_deq.seq < data_queue[i].seq
    /\ \A i, j \in 1..Len(data_queue) :
         i < j => data_queue[i].seq < data_queue[j].seq

\* C5: once stop_logging has returned the session is Idle: the running flag
\* is false and no producer thread is alive.
C5_StopReturnsIdle ==
    (mainpc = "ready" /\ ~running) => LiveThreads = {}

\* C6: a producer under which stop_logging cleared the flag starts no new
\* iteration (so it publishes at most the Reading of the iteration that was
\* in progress), and a thread ends only at the loop test, never inside an
\* iteration.
C6_CooperativeStop ==
    [][\A t \in Threads :
         /\ (stop_seen[t] /\ pc[t] = "check") => pc'[t] # "read"
         /\ (pc[t] # "none" /\ pc'[t] = "none") => pc[t] = "check"]_vars

\* C7: an exception inside an iteration leaves the flag alone and sends the
\* thread to the 1 s back-off, after which it tests the flag again; a thread
\* ends only on reading the flag false, and only stop_logging clears the flag.
C7_FailureKeepsLoop ==
    [][/\ \A t \in Threads :
            /\ (faults' = faults + 1 /\ pc'[t] # pc[t])
                 => /\ pc'[t] = "backoff"
                    /\ sleep_arg'[t] = RecoveryDelay
                    /\ running' = running
            /\ (pc[t] = "backoff" /\ pc'[t] # "backoff") => pc'[t] = "check"
            /\ (pc[t] # "none" /\ pc'[t] = "none") => ~running
       /\ (running /\ ~running') => stop_logging]_vars

C7_Witness ==
    /\ running
    /\ faults > 0
    /\ starts = 1
    /\ pc[1] = "publish"

\* C8: a load_calibration of the record written by the last
\* save_calibration restores the point set (same points, same order, same
\* values) and both noise parameters as they were at the save.
C8_RoundTrip ==
    [][(load_calibration /\ saved.valid)
         => /\ calibration_points' = saved.points
            /\ kalman_q' = saved.q
            /\ kalman_r' = saved.r]_vars

C8_Witness ==
    /\ load_result = "true"
    /\ saved.valid
    /\ Len(calibration_points) >= 2
    /\ calibration_points = saved.points
    /\ kalman_q = 50
    /\ kalman_r = DefaultR

\* a record with every key whose points can be fitted (or are too few for a
\* fit to be attempted)
ValidRecord(doc) ==
    /\ doc.kind = "json"
    /\ {"calibration_points", "kalman_params", "q", "r"} \subseteq doc.keys
    /\ \/ Len(doc.points) < MinFitPoints
       \/ ~FitRaises(DecodePoints(doc.points))

\* C9: a sensor constructed while a valid record exists holds the record's
\* state: its points, the interpolant through them, and its process and
\* measurement noise.
C9_ConstructHoldsRecord ==
    [][(Construct /\ ValidRecord(cal_file))
         => LET pts == DecodePoints(cal_file.points) IN
            /\ calibration_points' = pts
            /\ interpolation_func' =
                  IF Len(pts) >= MinFitPoints THEN Fit(pts) ELSE NoFunc
            /\ kalman_q' = DecodeNum(cal_file.q)
            /\ kalman_r' = DecodeNum(cal_file.r)]_vars

\* C10: after a load that failed, at construction or later, no interpolant
\* is in use (conversion is by the default curve).
C10_FailedLoadFallsBack ==
    [][((load_calibration \/ Construct) /\ load_result' = "false")
         => interpolation_func' = NoFunc]_vars

\* C11: an interpolant exists exactly when the point set has at least 3
\* members, and an existing interpolant is the fit of the current point set,
\* never of an earlier one; in particular there is none after a clear.
C11_InterpolantTracksPoints ==
    /\ (interpolation_func # NoFunc)
          <=> (Len(calibration_points) >= MinFitPoints)
    /\ (interpolation_func # NoFunc)
          => (interpolation_func = Fit(calibration_points))

\* C12: every calibration point held has its distance within
\* [min_distance, max_distance].
C12_PointsInRange ==
    \A i \in 1..Len(calibration_points) :
        /\ calibration_points[i].distance >= MinDistance
        /\ calibration_points[i].distance <= MaxDistance

\* C19: the calibration points are held in ascending order of distance.
C19_SortedByDistance ==
    \A i, j \in 1..Len(calibration_points) :
        i < j => calibration_points[i].distance
                    <= calibration_points[j].distance

C19_Witness ==
    /\ Len(calibration_points) = Len(InitialPoints) + 1
    /\ calibration_points[1].distance = 3
    /\ calibration_points[2] = InitialPoints[1]

\* C20: update_interpolation called with fewer than 3 points returns without
\* raising and leaves the interpolant (or its absence) and the points as
\* they were.
C20_SmallFitNoOp ==
    [][(UpdateInterpolation /\ Len(calibration_points) < MinFitPoints)
         => /\ fit_result' = "returned"
            /\ UNCHANGED <<calibration_points, interpolation_func>>]_vars

C20_Witness ==
    /\ fit_result = "returned"
    /\ Len(calibration_points) = 2
    /\ interpolation_func # NoFunc

InRange(d) == d >= MinDistance * 100 /\ d <= MaxDistance * 100

\* C13: voltage_to_distance returns a distance within
\* [min_distance, max_distance] for every voltage in every calibration
\* state; with an interpolant, a calibrated voltage gives the (clamped)
\* distance of its point, without one the result is that of the default
\* curve.
C13_ConvertInRange ==
    [][\A v \in ConvVoltages :
         Convert(v)
           => /\ InRange(converted'.distance)
              /\ (interpolation_func = NoFunc)
                   => converted'.distance = voltage_to_distance_default(v)
              /\ \A i \in DOMAIN interpolation_func :
                   (interpolation_func[i].voltage = v)
                     => \/ converted'.distance
                             = 100 * interpolation_func[i].distance
                        \/ /\ ~InRange(100 * interpolation_func[i].distance)
                           /\ converted'.distance
                                \in {MinDistance * 100, MaxDistance * 100}]_vars

C13_Witness ==
    /\ converted = [voltage |-> 310, distance |-> MinDistance * 100]
    /\ \E i \in DOMAIN interpolation_func :
         /\ interpolation_func[i].voltage = 310
         /\ interpolation_func[i].distance = 3

\* C14: the estimate and the covariance change only in an estimator update
\* with the filter enabled (a filtered read, at the menu or in the producer
\* loop); loading, clearing, adding a point, entering new noise parameters,
\* unfiltered reads, start_logging and stop_logging leave both as they were.
C14_EstimatorFrame ==
    [][(kalman_x' # kalman_x \/ kalman_p' # kalman_p)
         => /\ kalman_enabled
            /\ \/ \E v \in MenuVoltages : read_distance(TRUE, v)
               \/ \E t \in Threads :
                     LoopRead(t, MaxReads, MenuVoltages)
            /\ ~(\/ load_calibration
                 \/ clear_calibration
                 \/ \E d \in Distances, smp \in Samples :
                       calibrate_point(d, smp)
                 \/ \E nq \in {20} : configure_kalman(nq, 0)
                 \/ \E en \in {FALSE} : configure_filter(20, 20, en)
                 \/ \E v \in MenuVoltages : read_distance(FALSE, v)
                 \/ \E iv \in MenuIntervals : start_logging(iv)
                 \/ stop_logging
                 \/ stop_logging_join)]_vars

C14_Witness ==
    /\ kalman_x # InitialX
    /\ voltage_buffer # <<>>
    /\ voltage_buffer[Len(voltage_buffer)] = 120
    /\ kalman_q = 20
    /\ starts = 1
    /\ ~running
    /\ mainpc = "ready"
    /\ total_readings = 0
    /\ session_start > last_reading_time

\* C15: get_statistics returns None exactly when no reading has been taken,
\* and a snapshot with the reading count once one has.
C15_StatisticsAbsentIffNoReading ==
    [][get_statistics
         => /\ (stats'.kind = "None") <=> (readings_count = 0)
            /\ (stats'.kind = "snapshot")
                 => stats'.readings_count = readings_count]_vars

\* C16: stop_logging on a session that is not running changes nothing but
\* the position of the caller: the flag stays false, total_readings, the
\* queue and all the rest are left alone, the join it makes (if any) finds a
\* thread that has ended, and its return leaves the state as it was before
\* the call.
C16_StopIdleNoOp ==
    [][/\ (stop_logging /\ ~running)
            => /\ ~running'
               /\ UNCHANGED <<session_start, log_thread, log_rows, data_queue,
                              total_readings, pc, interval, cur, sleep_arg,
                              last_deq, acquired, faults, starts, stop_seen>>
               /\ mainpc' # "ready"
                    => (log_thread # None /\ ~Live(log_thread))
       /\ (stop_logging_join /\ mainpc = "joining_again")
            => /\ mainpc' = "ready"
               /\ UNCHANGED <<running, session_start, log_thread, log_rows,
                              data_queue, total_readings, pc, interval, cur,
                              sleep_arg, last_deq, acquired, faults, starts,
                              stop_seen>>]_vars

C16_Witness ==
    /\ mainpc = "joining_again"
    /\ ~running
    /\ total_readings > 0
    /\ data_queue # <<>>

\* C17: an iteration of the producer takes one averaged voltage sample: one
\* entry is appended to the voltage history, and the voltage, the raw
\* distance and the filtered distance of its Reading come from that sample.
C17_OneSamplePerIteration ==
    [][\A t \in Threads :
         (pc[t] = "read" /\ pc'[t] = "publish")
           => /\ voltage_buffer' = PushBounded(voltage_buffer, cur'[t].voltage)
              /\ cur'[t].distance_raw
                   \in voltage_to_distance(interpolation_func,
                                           cur'[t].voltage)
              /\ cur'[t].distance
                   = ReadDistance(TRUE, cur'[t].distance_raw, kalman_enabled,
                                  kalman_x, kalman_p, kalman_q, kalman_r,
                                  distance_buffer).out]_vars

\* C18: after a successful iteration the producer sleeps for the interval
\* less the time the iteration took (and not at all when it took longer).
C18_SleepCorrected ==
    [][\A t \in Threads :
         (pc[t] = "publish" /\ pc'[t] = "sleep")
           => LET elapsed == now - cur[t].timestamp
              IN sleep_arg'[t] = IF elapsed < interval[t]
                                 THEN interval[t] - elapsed ELSE 0]_vars

\* C21: read_distance with filtering off returns the converted distance as
\* it is and leaves the estimate, the covariance and the smoothing buffer
\* unchanged; of the sensor it changes only the voltage history, the
\* reading counter (by one, as a filtered read does) and the time of the
\* last reading.
C21_UnfilteredFrame ==
    [][\A v \in ReadVoltages :
         /\ read_distance(FALSE, v)
              => /\ ret'.raw \in voltage_to_distance(interpolation_func, v)
                 /\ ret'.out = ret'.raw
                 /\ UNCHANGED <<kalman_x, kalman_p, distance_buffer>>
                 /\ UNCHANGED <<kalman_enabled, converted>>
                 /\ UNCHANGED calVars
                 /\ voltage_buffer' = PushBounded(voltage_buffer, v)
                 /\ readings_count' = readings_count + 1
                 /\ last_reading_time' = now
         /\ read_distance(TRUE, v)
              => readings_count' = readings_count + 1]_vars

C21_Witness ==
    /\ ~ret.filtered
    /\ ret.raw > 0
    /\ ret.out = ret.raw
    /\ readings_count > 1
    /\ Len(distance_buffer) = 1
    /\ kalman_x # InitialX
    /\ kalman_x # ret.out

\* C22: kalman_filter is the scalar recursive update. Enabled: with
\* p1 = covariance + process_noise and k = p1 / (p1 + measurement_noise),
\* covariance' = (1 - k) p1 and estimate' = estimate + k (measurement -
\* estimate), and the new estimate is what it returns (the value appended to
\* the smoothing buffer). Disabled: it returns the measurement and leaves
\* estimate and covariance alone. The equalities are taken up to the
\* rounding of one unit of the fixed-point values.
C22_ReferenceUpdate ==
    [][\A v \in FilterVoltages :
         ReadStep(TRUE, v, MaxFiltered)
           => LET m == ret'.raw
                  p1 == kalman_p + kalman_q
                  den == p1 + kalman_r
                  returned == distance_buffer'[Len(distance_buffer')]
              IN IF kalman_enabled
                 THEN /\ kalman_p' * den - kalman_r * p1 \in 0..(den - 1)
                      /\ p1 * (m - kalman_x) - (kalman_x' - kalman_x) * den
                           \in 0..(den - 1)
                      /\ returned = kalman_x'
                 ELSE /\ returned = m
                      /\ UNCHANGED <<kalman_x, kalman_p>>]_vars

C22_Witness ==
    /\ kalman_enabled
    /\ ret.filtered
    /\ Len(distance_buffer) >= 2
    /\ distance_buffer[Len(distance_buffer)] = kalman_x
    /\ kalman_x # ret.raw
    /\ kalman_x # distance_buffer[1]
    /\ kalman_p < InitialP
    /\ kalman_q = 20

\* C23: with process noise 0 and measurement noise above 0 the gain of an
\* update, k = covariance / (covariance + measurement_noise), is strictly
\* below the gain of the update before it, and an update moves the estimate
\* toward the measurement without passing it: fed the same measurement again
\* and again, the estimate approaches it monotonically.
C23_GainDecreases ==
    [][\A v \in FilterVoltages :
         (ReadStep(TRUE, v, MaxFiltered) /\ kalman_q = 0 /\ kalman_r > 0)
           => LET m == ret'.raw IN
              /\ kalman_p' * (kalman_p + kalman_r)
                   < kalman_p * (kalman_p' + kalman_r)
              /\ \/ kalman_x <= kalman_x' /\ kalman_x' <= m
                 \/ m <= kalman_x' /\ kalman_x' <= kalman_x]_vars

C23_Witness ==
    /\ kalman_q = 0
    /\ Len(distance_buffer) = 4
    /\ ret.filtered
    /\ ret.raw < distance_buffer[4]
    /\ distance_buffer[4] < distance_buffer[3]
    /\ distance_buffer[3] < distance_buffer[2]
    /\ distance_buffer[2] < distance_buffer[1]
    /\ distance_buffer[1] < InitialX
    /\ kalman_p * 30 < InitialP * Fine

\* smallest and largest value held by a buffer
BufMin(buf) ==
    CHOOSE x \in {buf[i] : i \in DOMAIN buf} : \A i \in DOMAIN buf : x <= buf[i]
BufMax(buf) ==
    CHOOSE x \in {buf[i] : i \in DOMAIN buf} : \A i \in DOMAIN buf : x >= buf[i]

\* what a filtered read returned is the recency-weighted average of the
\* buffer (rounded down to the fixed-point unit), newer entries weighing more
IsWeightedAverage(out, buf) ==
    LET n == Len(buf)
        total == WeightTotal(n, n)
        sum == WeightedSum(buf, n)
    IN /\ \A i \in 1..(n - 1) : 0 < Weight(i, n) /\ Weight(i, n) < Weight(i + 1, n)
       /\ out * total <= sum
       /\ sum < (out + 1) * total

\* C24 as stated: a filtered read returns the last pushed value while the
\* smoothing buffer holds 3 or fewer entries; with more than 3 it returns
\* the recency-weighted average, which lies strictly between the smallest
\* and the largest buffered value.
C24_AverageStrictlyInside ==
    [][\A v \in FilterVoltages :
         ReadStep(TRUE, v, MaxFiltered)
           => LET buf == distance_buffer'
                  n == Len(buf)
              IN IF n <= 3 THEN ret'.out = buf[n]
                 ELSE /\ IsWeightedAverage(ret'.out, buf)
                      /\ BufMin(buf) * WeightTotal(n, n) < WeightedSum(buf, n)
                      /\ WeightedSum(buf, n) < BufMax(buf) * WeightTotal(n, n)
      ]_vars

\* C24 amended: a filtered read returns the last pushed value while the
\* smoothing buffer holds 3 or fewer entries; with more than 3 it returns
\* the recency-weighted average, which lies between the smallest and the
\* largest buffered value: strictly when the buffered values differ, and
\* equal to them when they are all the same.
C24_AverageInside ==
    [][\A v \in FilterVoltages :
         ReadStep(TRUE, v, MaxFiltered)
           => LET buf == distance_buffer'
                  n == Len(buf)
                  lo == BufMin(buf)
                  hi == BufMax(buf)
              IN IF n <= 3 THEN ret'.out = buf[n]
                 ELSE /\ IsWeightedAverage(ret'.out, buf)
                      /\ lo <= ret'.out /\ ret'.out <= hi
                      /\ lo < hi
                           => /\ lo * WeightTotal(n, n) < WeightedSum(buf, n)
                              /\ WeightedSum(buf, n) < hi * WeightTotal(n, n)
                      /\ lo = hi => ret'.out = lo]_vars

C24_Witness ==
    /\ ret.filtered
    /\ Len(distance_buffer) = 5
    /\ BufMin(distance_buffer) < ret.out
    /\ ret.out < BufMax(distance_buffer)
    /\ ret.out # distance_buffer[5]
    /\ distance_buffer[5] # distance_buffer[4]

\* C25: voltage_to_distance_default returns a value within [min_distance,
\* max_distance] for every voltage, b = 0.04 included: max_distance below
\* 0.25 V, min_distance above 3.3 V, and in between a / (voltage - b) - c
\* with a = 12.0, b = 0.04, c = 0.42, clamped into the range (the quotient is
\* stated by its products, to the fixed-point unit).
C25_DefaultCurve ==
    [][\A v \in DefaultVoltages :
         ConvertDefault(v)
           => LET d == converted'.distance
                  u == v - 4
                  lo == MinDistance * 100
                  hi == MaxDistance * 100
              IN /\ converted'.voltage = v
                 /\ lo <= d /\ d <= hi
                 /\ v < 25 => d = hi
                 /\ v > 330 => d = lo
                 /\ (25 <= v /\ v <= 330)
                      => \/ d = hi /\ (hi + 42) * u <= 120000
                         \/ d = lo /\ 120000 < (lo + 43) * u
                         \/ /\ lo < d /\ d < hi
                            /\ (d + 42) * u <= 120000
                            /\ 120000 < (d + 43) * u]_vars

C25_Witness ==
    /\ converted.voltage = 4
    /\ converted.distance = MaxDistance * 100
    /\ interpolation_func # NoFunc

\* lowest and highest voltage of the points an interpolant was built from
KnotMin(func) ==
    CHOOSE x \in {func[i].voltage : i \in DOMAIN func} :
        \A i \in DOMAIN func : x <= func[i].voltage
KnotMax(func) ==
    CHOOSE x \in {func[i].voltage : i \in DOMAIN func} :
        \A i \in DOMAIN func : x >= func[i].voltage

\* C26: with an interpolant built, a voltage below the lowest calibrated
\* voltage converts to max_distance and one above the highest to
\* min_distance; and in a calibration that starts without an interpolant
\* there is none while there are fewer than three points, there is one once
\* the third point is added, and 0.10 V then converts to 30 cm.
C26_FillValuesAndThirdPoint ==
    [][/\ \A v \in ConvVoltages :
            (Convert(v) /\ interpolation_func # NoFunc)
              => /\ v < KnotMin(interpolation_func)
                      => converted'.distance = MaxDistance * 100
                 /\ v > KnotMax(interpolation_func)
                      => converted'.distance = MinDistance * 100
       /\ \A d \in Distances, smp \in Samples :
            (calibrate_point(d, smp) /\ interpolation_func = NoFunc)
              => (interpolation_func' # NoFunc
                    <=> Len(calibration_points') >= MinFitPoints)
       /\ (Convert(10) /\ Len(calibration_points) = MinFitPoints)
            => /\ interpolation_func # NoFunc
               /\ converted'.distance = MaxDistance * 100]_vars

\* C27: for raw samples of any number from 1 on, read_voltage returns a
\* value within [min(samples), max(samples)]: the average (to the
\* fixed-point unit) of the samples inside [Q1 - 1.5 IQR, Q3 + 1.5 IQR], of
\* which there is always at least one, and it appends that value to the
\* voltage history, which keeps its last buffer_size entries.
C27_SampleAverage ==
    [][\A sq \in SampleSets :
         (read_voltage(sq) /\ sampled' = sq)
           => LET out == voltage_buffer'[Len(voltage_buffer')]
                  kept == Inliers(sq)
              IN /\ BufMin(sq) <= out /\ out <= BufMax(sq)
                 /\ kept # <<>>
                 /\ \A i \in DOMAIN kept :
                      /\ 2 * QuartileX4(sq, 1)
                           - 3 * (QuartileX4(sq, 3) - QuartileX4(sq, 1))
                           <= 8 * kept[i]
                      /\ 8 * kept[i]
                           <= 2 * QuartileX4(sq, 3)
                                + 3 * (QuartileX4(sq, 3) - QuartileX4(sq, 1))
                 /\ out * Len(kept) <= SeqSum(kept)
                 /\ SeqSum(kept) < (out + 1) * Len(kept)
                 /\ Len(voltage_buffer') <= BufferSize
                 /\ voltage_buffer' = PushBounded(voltage_buffer, out)]_vars

C27_Witness ==
    /\ Len(sampled) = MaxSamples
    /\ BufMax(sampled) = 330
    /\ Len(Inliers(sampled)) = MaxSamples - 1
    /\ Len(voltage_buffer) = 2
    /\ voltage_buffer[2] = 100
    /\ voltage_buffer[1] = 330

\* C28: when a session starts the hand-off queue holds no Reading of an
\* earlier session, so every Reading dequeued while a session is Running was
\* produced in that session, and the elapsed times dequeued during one
\* session do not decrease.
C28_QueueEmptyAtStart ==
    [][/\ (~running /\ running') => data_queue' = <<>>
       /\ (update_plot /\ running)
            => /\ last_deq'.timestamp >= session_start
               /\ (last_deq # NoReading /\ last_deq.timestamp >= session_start)
                    => last_deq'.elapsed >= last_deq.elapsed]_vars

\* C29: whenever run_scan has ended, after all measurements, after a user
\* interrupt or because a sensor read or a motor step raised, the stepper
\* driver is disabled; and a scan that completes has taken
\* TOTAL_MICROSTEPS_360_GRAUS / STEPS_POR_MEDICAO = 400 measurements.
C29_ScanEndsDisabled ==
    /\ scan.pc = "done" => ~scan.enabled
    /\ (scan.pc = "done" /\ scan.outcome = "completed")
         => /\ scan.results = TOTAL_MICROSTEPS_360_GRAUS \div STEPS_POR_MEDICAO
            /\ scan.results = 400

====
